---- MODULE Spec2Model ----
(***************************************************************************)
(* The trollup sequencer (sequencer/src/main.rs): the mempool `db` shared  *)
(* by the submit_transaction RPC method and the periodic batch task of     *)
(* run_node, the ledger functions validate_tx / apply_tx, the commitment   *)
(* compute_root and the signature scheme hash_tx / sign /                  *)
(* verify_tx_signature.                                                    *)
(*                                                                         *)
(* Scaling.  types::U256 is a fixed-width unsigned integer whose `+` and   *)
(* `-` panic on overflow.  The width is scaled from 32 bytes to WordBytes  *)
(* bytes (U256Max = 256^WordBytes - 1); addresses are scaled from 20 bytes *)
(* to one byte, keeping addr0 < addr1.  keccak256 is modelled as an        *)
(* injective constructor over its input bytes (collision freedom).         *)
(***************************************************************************)
EXTENDS Integers, Sequences, FiniteSets, TLC

\* ------------------------------------------------------------------ bounds

\* Bytes of one big-endian encoded U256 (32 in the source, scaled).
WordBytes == 1

\* Transactions admitted by submit_transaction over one run.
MaxAdmit == 2

\* Largest nonce a client puts in a transaction.
MaxNonce == 1

\* ------------------------------------------------------------------ values

U256Max == (256 ^ WordBytes) - 1

\* The two accounts known to the sequencer (0x318A.. and 0x4199..).
addr0 == 1

addr1 == 2

\* The addresses clients use: the two known ones and one the anchor does not
\* report.
Address == {addr0, addr1, addr1 + 1}

\* Private keys, one per address.
PrivateKey == {"k0", "k1", "k2"}

\* LocalWallet::address: the address a private key controls.
AddressOf(private_key) ==
    CASE private_key = "k0" -> addr0
      [] private_key = "k1" -> addr1
      [] OTHER -> addr1 + 1

\* Values clients transfer.
TxValue == {0, 40, 60}

\* Balances the anchor reports for an account.
AnchorBalance == {0, 100, U256Max}

\* struct Tx.
Tx == [from : Address, to : Address, nonce : 0..MaxNonce, value : TxValue]

\* ------------------------------------------------------------------ codec

\* U256::to_big_endian into a buffer of WordBytes bytes, most significant
\* byte first.
to_big_endian(n) ==
    [i \in 1..WordBytes |-> (n \div (256 ^ (WordBytes - i))) % 256]

\* Address::as_fixed_bytes.
as_fixed_bytes(a) == <<a>>

\* ethers::utils::keccak256, collision free.
keccak256(bytes) == [keccak |-> bytes]

\* hash_tx: keccak256(from ++ to ++ be(value) ++ be(nonce)).
hash_tx(sig_args) ==
    keccak256(as_fixed_bytes(sig_args.from) \o as_fixed_bytes(sig_args.to)
              \o to_big_endian(sig_args.value) \o to_big_endian(sig_args.nonce))

\* compute_root with the two balances encoded in the other order.
compute_root_swapped(state_) ==
    keccak256(to_big_endian(state_[addr1]) \o to_big_endian(state_[addr0]))

\* compute_root: keccak256(be(state[addr0]) ++ be(state[addr1])).
compute_root(state_) ==
    keccak256(to_big_endian(state_[addr0]) \o to_big_endian(state_[addr1]))

\* ------------------------------------------------------------------ signatures

\* A signature string.  `hex` says whether it parses as types::Signature;
\* a parsed signature recovers to `signer` on the message it was made over
\* (`msg`) and to no address of interest on any other message.
UnparsableSignature == [hex |-> FALSE, signer |-> 0, msg |-> keccak256(<<>>)]

\* sign hashing the transaction without its nonce.
sign_without_nonce(private_key, tx) ==
    [hex |-> TRUE, signer |-> AddressOf(private_key),
     msg |-> hash_tx([tx EXCEPT !.nonce = 0])]

\* sign: the wallet of private_key signs hash_tx of the transaction.
sign(private_key, tx) ==
    [hex |-> TRUE, signer |-> AddressOf(private_key), msg |-> hash_tx(tx)]

\* verify_tx_signature that checks the signature against the hash but not
\* the recovered signer against from.
verify_tx_signature_any_signer(signed_tx) ==
    /\ signed_tx.signature.hex
    /\ signed_tx.signature.msg = hash_tx(signed_tx.tx)

\* verify_tx_signature: parse the signature, then Signature::verify(hash, from).
verify_tx_signature(signed_tx) ==
    /\ signed_tx.signature.hex
    /\ signed_tx.signature.msg = hash_tx(signed_tx.tx)
    /\ signed_tx.signature.signer = signed_tx.tx.from

\* ------------------------------------------------------------------ ledger

\* validate_tx that also rejects a transaction whose nonce is not 0.
validate_tx_nonce(state_, tx) ==
    /\ tx.tx.from \in DOMAIN state_
    /\ state_[tx.tx.from] >= tx.tx.value
    /\ tx.tx.nonce = 0

\* validate_tx reading an absent sender as a balance of 0.
validate_tx_default(state_, tx) ==
    (IF tx.tx.from \in DOMAIN state_ THEN state_[tx.tx.from] ELSE 0) >= tx.tx.value

\* validate_tx: Ok iff the sender is in the map with balance >= value.
validate_tx(state_, tx) ==
    /\ tx.tx.from \in DOMAIN state_
    /\ state_[tx.tx.from] >= tx.tx.value

\* apply_tx crediting from the balance read before the debit.
apply_tx_stale(state_, tx) ==
    IF ~(tx.tx.from \in DOMAIN state_ /\ state_[tx.tx.from] >= tx.tx.value)
    THEN [panic |-> "debit", state |-> state_]
    ELSE LET debited == [state_ EXCEPT ![tx.tx.from] = @ - tx.tx.value]
             entry == IF tx.tx.to \in DOMAIN debited
                      THEN debited
                      ELSE debited @@ (tx.tx.to :> 0)
             before == IF tx.tx.to \in DOMAIN state_ THEN state_[tx.tx.to] ELSE 0
         IN  IF before + tx.tx.value > U256Max
             THEN [panic |-> "credit", state |-> state_]
             ELSE [panic |-> "none",
                   state |-> [entry EXCEPT ![tx.tx.to] = before + tx.tx.value]]

\* apply_tx.  The result names the panic it ends in, if any: "debit" is the
\* `_ => panic!()` arm, "credit" the overflow panic of U256 `+=`.
apply_tx(state_, tx) ==
    IF ~(tx.tx.from \in DOMAIN state_ /\ state_[tx.tx.from] >= tx.tx.value)
    THEN [panic |-> "debit", state |-> state_]
    ELSE LET debited == [state_ EXCEPT ![tx.tx.from] = @ - tx.tx.value]
             entry == IF tx.tx.to \in DOMAIN debited
                      THEN debited
                      ELSE debited @@ (tx.tx.to :> 0)
         IN  IF entry[tx.tx.to] + tx.tx.value > U256Max
             THEN [panic |-> "credit", state |-> state_]
             ELSE [panic |-> "none",
                   state |-> [entry EXCEPT ![tx.tx.to] = @ + tx.tx.value]]

\* Iterator::filter(|tx| validate_tx(&state, tx).is_ok()), order kept.
RECURSIVE filter(_, _)
filter(s, state_) ==
    IF s = <<>> THEN <<>>
    ELSE IF validate_tx(state_, Head(s))
         THEN <<Head(s)>> \o filter(Tail(s), state_)
         ELSE filter(Tail(s), state_)

\* txs.iter().fold(state, apply_tx), left to right; stops at the first
\* panic.  `applied` lists the admission numbers apply_tx went through.
RECURSIVE fold(_, _, _)
fold(state_, txs_, applied_) ==
    IF txs_ = <<>> THEN [panic |-> "none", state |-> state_, applied |-> applied_]
    ELSE LET r == apply_tx(state_, Head(txs_))
         IN  IF r.panic = "none"
             THEN fold(r.state, Tail(txs_), Append(applied_, Head(txs_).id))
             ELSE [panic |-> r.panic, state |-> state_, applied |-> applied_]

\* HashMap::from([(addr0, state[1]), (addr1, state[0])]).
HashMap_from_swapped(l1) == (addr0 :> l1[2]) @@ (addr1 :> l1[1])

\* HashMap::from([(addr0, state[0]), (addr1, state[1])]).
HashMap_from(l1) == (addr0 :> l1[1]) @@ (addr1 :> l1[2])

\* Vec::insert(0, x) in place of push.
push_front(v, x) == <<x>> \o v

\* Vec::push.
push(v, x) == Append(v, x)

\* impl From<SignedTx> for l2::Tx; `id` is the history field.
From_SignedTx(tx) ==
    [from |-> tx.tx.from, to |-> tx.tx.to, amt |-> tx.tx.value,
     nonce |-> tx.tx.nonce, signature |-> tx.signature, id |-> tx.id]

\* An iteration that reads the vector and leaves its elements in place.
drain_rest_keep(v) == v

\* A drain of all but the last element, drain(..len - 1).
drain_rest_last(v) == IF v = <<>> THEN <<>> ELSE <<v[Len(v)]>>

\* What Vec::drain(..) leaves in the vector once the iterator is dropped.
drain_rest(v) == <<>>

\* ------------------------------------------------------------------ state

VARIABLES
    db,         \* Db: the mempool, Vec<SignedTx> behind the mutex
    pc,         \* where the batch task is in its loop
    fault,      \* what ended the batch task, "none" while it runs
    tick_due,   \* the interval has elapsed and its tick is not yet taken
    l1_state,   \* the balances current_state returned (line 180)
    state,      \* the HashMap built from current_state (line 181)
    txs,        \* the drained and filtered transactions (line 187)
    l2_state,   \* the fold's result (line 194)
    block,      \* the (transactions, root) handed to submit_block
    reply,      \* the result of the last submit_transaction call
    nextId,     \* history: the number of the next admission
    drained,    \* history: what the drain of this cycle took
    taken,      \* history: how many drains took each admission
    applied,    \* history: the admissions apply_tx applied in this cycle
    dropped,    \* history: the admissions a drain took and the filter left out
    cli         \* the `sign` / `send` command line process

vars == <<db, pc, fault, tick_due, l1_state, state, txs, l2_state, block,
          reply, nextId, drained, taken, applied, dropped, cli>>

NoState == <<>>

\* The command line process before it has read its arguments.
CliStart ==
    [pc |-> "start", private_key |-> "none",
     tx |-> [from |-> 0, to |-> 0, nonce |-> 0, value |-> 0],
     signature |-> UnparsableSignature, result |-> "none"]

NoBlock == [txs |-> <<>>, root |-> keccak256(<<>>), sent |-> FALSE]

\* init_db and the start of the spawned task.
Init ==
    /\ db = <<>>
    /\ pc = "tick"
    /\ fault = "none"
    /\ tick_due = TRUE
    /\ l1_state = <<>>
    /\ state = NoState
    /\ txs = <<>>
    /\ l2_state = NoState
    /\ block = NoBlock
    /\ reply = "none"
    /\ nextId = 1
    /\ drained = <<>>
    /\ taken = [i \in 1..MaxAdmit |-> 0]
    /\ applied = <<>>
    /\ dropped = {}
    /\ cli = CliStart

batchLocals == <<l1_state, state, txs, l2_state, block, drained, applied>>

\* ------------------------------------------------------------------ RPC

\* The signature strings a client sends with transaction t: t signed by any
\* key, another transaction signed by the sender's key, and a string that is
\* no signature.
SignaturesFor(t) ==
    {sign(k, t) : k \in PrivateKey}
        \cup {sign(k, [t EXCEPT !.nonce = (@ + 1) % (MaxNonce + 1)]) :
                 k \in {k \in PrivateKey : AddressOf(k) = t.from}}
        \cup {UnparsableSignature}

\* The parameters of submit_transaction calls that parse as SignedTx.
Request == UNION {{[tx |-> t, signature |-> s] : s \in SignaturesFor(t)} : t \in Tx}

\* submit_transaction with parameters that do not parse as SignedTx:
\* `params.parse()?` returns the error.
SubmitMalformed ==
    /\ nextId <= MaxAdmit
    /\ reply' = "error"
    /\ UNCHANGED <<db, pc, fault, tick_due, batchLocals, nextId, taken, dropped, cli>>

\* submit_transaction with a SignedTx: verify_tx_signature, then lock and push.
SubmitTransaction ==
    /\ nextId <= MaxAdmit
    /\ \E signed \in Request :
        IF verify_tx_signature(signed)
        THEN /\ db' = push(db, [tx |-> signed.tx, signature |-> signed.signature,
                                id |-> nextId])
             /\ nextId' = nextId + 1
             /\ reply' = "ok"
             /\ UNCHANGED <<pc, fault, tick_due, batchLocals, taken, dropped, cli>>
        ELSE /\ reply' = "error"
             /\ UNCHANGED <<db, pc, fault, tick_due, batchLocals, nextId, taken,
                            dropped, cli>>

\* ------------------------------------------------------------------ batch task

\* A failure that is recorded and after which the loop goes on with the
\* next tick.
Panic_retry(why) ==
    /\ pc' = "tick"
    /\ fault' = why

\* A panic (an unwrap of an Err, panic!(), arithmetic overflow) ends the
\* spawned task; the RPC server keeps running.
Panic(why) ==
    /\ pc' = "panicked"
    /\ fault' = why

\* The interval of 5 s elapses (the first tick is due at once); ticks missed
\* while the loop body runs are kept for the next interval.tick().
TimerFires ==
    /\ ~tick_due
    /\ tick_due' = TRUE
    /\ UNCHANGED <<db, pc, fault, batchLocals, reply, nextId, taken, dropped, cli>>

\* A timer callback that starts an iteration on every elapsed interval, also
\* while the previous iteration waits for its submission.
Tick_overlap ==
    /\ pc \in {"tick", "sending"}
    /\ tick_due
    /\ tick_due' = FALSE
    /\ pc' = "root"
    /\ l1_state' = <<>>
    /\ state' = NoState
    /\ txs' = <<>>
    /\ l2_state' = NoState
    /\ block' = NoBlock
    /\ drained' = <<>>
    /\ applied' = <<>>
    /\ UNCHANGED <<db, fault, reply, nextId, taken, dropped, cli>>

\* interval.tick().await completes: an iteration begins and root().call()
\* is issued.
Tick ==
    /\ pc = "tick"
    /\ tick_due
    /\ tick_due' = FALSE
    /\ pc' = "root"
    /\ l1_state' = <<>>
    /\ state' = NoState
    /\ txs' = <<>>
    /\ l2_state' = NoState
    /\ block' = NoBlock
    /\ drained' = <<>>
    /\ applied' = <<>>
    /\ UNCHANGED <<db, fault, reply, nextId, taken, dropped, cli>>

\* l1_contract.root().call().await.unwrap(): the root is only printed;
\* current_state().call() is issued.
ReadRoot ==
    /\ pc = "root"
    /\ \/ pc' = "state" /\ UNCHANGED fault
       \/ Panic("anchor_read")
    /\ UNCHANGED <<db, tick_due, reply, batchLocals, nextId, taken, dropped, cli>>

\* A loop that drains the mempool before it reads the state: the failed read
\* finds the mempool already emptied.
ReadStateFails_drained ==
    /\ pc = "state"
    /\ Panic("anchor_read")
    /\ db' = drain_rest(db)
    /\ UNCHANGED <<tick_due, reply, batchLocals, nextId, taken, dropped, cli>>

\* current_state().call().await fails: unwrap panics before the drain.
ReadStateFails ==
    /\ pc = "state"
    /\ Panic("anchor_read")
    /\ UNCHANGED <<db, tick_due, reply, batchLocals, nextId, taken, dropped, cli>>

\* current_state().call().await returns, and the task runs without another
\* await up to submit_block(..).send(): the HashMap of the two balances, the
\* drain and filter under the mutex (the guard lives to the end of that
\* statement), the fold of apply_tx, the conversion of the transactions
\* (signature.parse().unwrap()) and compute_root.
Batch ==
    /\ pc = "state"
    /\ \E s0 \in AnchorBalance, s1 \in AnchorBalance :
        LET st == HashMap_from(<<s0, s1>>)
            kept == filter(db, st)
            r == fold(st, kept, <<>>)
        IN  /\ l1_state' = <<s0, s1>>
            /\ state' = st
            /\ txs' = kept
            /\ db' = drain_rest(db)
            /\ drained' = db
            /\ taken' = [i \in 1..MaxAdmit |->
                    taken[i] + Cardinality({k \in 1..Len(db) : db[k].id = i})]
            /\ dropped' = dropped \cup
                    {db[k].id : k \in {k \in 1..Len(db) : ~validate_tx(st, db[k])}}
            /\ l2_state' = r.state
            /\ applied' = r.applied
            /\ IF r.panic # "none"
               THEN /\ Panic(IF r.panic = "debit" THEN "apply_tx" ELSE "overflow")
                    /\ UNCHANGED block
               ELSE IF \E k \in 1..Len(kept) : ~kept[k].signature.hex
               THEN /\ Panic("signature_parse")
                    /\ UNCHANGED block
               ELSE /\ block' = [txs |-> [k \in 1..Len(kept) |-> From_SignedTx(kept[k])],
                                 root |-> compute_root(r.state),
                                 sent |-> TRUE]
                    /\ pc' = "sending"
                    /\ UNCHANGED fault
    /\ UNCHANGED <<tick_due, reply, nextId, cli>>

\* A submission whose failure puts the drained transactions back at the head
\* of the mempool before the task ends.
SendDone_requeue ==
    /\ pc = "sending"
    /\ \/ pc' = "tick" /\ UNCHANGED <<fault, db>>
       \/ Panic("anchor_submit") /\ db' = drained \o db
    /\ UNCHANGED <<tick_due, reply, batchLocals, nextId, taken, dropped, cli>>

\* submit_block(..).send().await.unwrap(): the anchor takes the block and
\* the loop goes back to the tick, or the call fails and unwrap panics.
SendDone ==
    /\ pc = "sending"
    /\ \/ pc' = "tick" /\ UNCHANGED fault
       \/ Panic("anchor_submit")
    /\ UNCHANGED <<db, tick_due, reply, batchLocals, nextId, taken, dropped, cli>>

BatchTask == Tick \/ ReadRoot \/ ReadStateFails \/ Batch \/ SendDone

Next ==
    \/ SubmitMalformed
    \/ SubmitTransaction
    \/ TimerFires
    \/ Tick
    \/ ReadRoot
    \/ ReadStateFails
    \/ Batch
    \/ SendDone

Spec == Init /\ [][Next]_vars

\* The tokio runtime keeps polling the spawned task: a step of it that is
\* possible is eventually taken.
FairSpec == Spec /\ WF_vars(BatchTask) /\ WF_vars(TimerFires)

\* ------------------------------------------------------------------ command line

\* The node's variables, which the command line process does not touch.
nodeVars == <<db, pc, fault, tick_due, batchLocals, reply, nextId, taken, dropped>>

\* The --private-key values: the keys of the three addresses and the default
\* of 32 zero bytes, which is no secp256k1 key.
CliPrivateKey == PrivateKey \cup {"zero"}

\* `sign`, and `send` without --signature: SecretKey::from_be_bytes(..)
\* .expect("invalid private key") panics on the zero key; otherwise the
\* wallet signs hash_tx of the transaction built from the arguments.
CliSign ==
    /\ cli.pc = "start"
    /\ \E private_key \in CliPrivateKey, t \in Tx :
        IF private_key \notin PrivateKey
        THEN cli' = [cli EXCEPT !.pc = "panicked", !.private_key = private_key,
                                !.tx = t]
        ELSE cli' = [cli EXCEPT !.pc = "signed", !.private_key = private_key,
                                !.tx = t, !.signature = sign(private_key, t)]
    /\ UNCHANGED nodeVars

\* `send` with --signature: the signed transaction is built from the
\* arguments as given.
CliSupplied ==
    /\ cli.pc = "start"
    /\ \E t \in Tx :
        \E s \in SignaturesFor(t) :
            cli' = [cli EXCEPT !.pc = "signed", !.tx = t, !.signature = s]
    /\ UNCHANGED nodeVars

\* `send`: verify_tx_signature(&signed)? before the request is made.
CliVerify ==
    /\ cli.pc = "signed"
    /\ cli' = [cli EXCEPT
                  !.pc = "done",
                  !.result = IF verify_tx_signature([tx |-> cli.tx,
                                                     signature |-> cli.signature])
                             THEN "ok" ELSE "error"]
    /\ UNCHANGED nodeVars

CliNext == CliSign \/ CliSupplied \/ CliVerify

\* One run of the command line client.
CliSpec == Init /\ [][CliNext]_vars

\* ------------------------------------------------------------------ properties

\* The admission numbers of a sequence of mempool entries or block entries.
Ids(s) == [k \in 1..Len(s) |-> s[k].id]

\* How many entries of the mempool carry admission number i.
InMempool(i) == Cardinality({k \in 1..Len(db) : db[k].id = i})

\* The sum of the balances of the accounts S of a ledger.
RECURSIVE SumOver(_, _)
SumOver(ledger, S) ==
    IF S = {} THEN 0
    ELSE LET a == CHOOSE x \in S : TRUE
         IN  ledger[a] + SumOver(ledger, S \ {a})

Total(ledger) == SumOver(ledger, DOMAIN ledger)

\* The big-endian encodings of the balances of the accounts S, in ascending
\* address order.
RECURSIVE EncodeAscending(_, _)
EncodeAscending(ledger, S) ==
    IF S = {} THEN <<>>
    ELSE LET a == CHOOSE x \in S : \A y \in S : x <= y
         IN  to_big_endian(ledger[a]) \o EncodeAscending(ledger, S \ {a})

\* The batch step of this cycle has run.
BatchRan == state # NoState

\* Entry e of the drain was kept by the filter.
Kept(e) == \E k \in 1..Len(txs) : txs[k].id = e.id

\* The scenario of C1: the anchor reports A = 100, B = 0 and the drain took
\* A -> B 60 followed by A -> C 60.
C1_Scenario ==
    /\ BatchRan
    /\ state = (addr0 :> 100) @@ (addr1 :> 0)
    /\ Len(drained) = 2
    /\ drained[1].tx.from = addr0 /\ drained[1].tx.to = addr1
    /\ drained[1].tx.value = 60
    /\ drained[2].tx.from = addr0 /\ drained[2].tx.to = addr1 + 1
    /\ drained[2].tx.value = 60

\* C1: each drained transaction is validated against the ledger the earlier
\* accepted ones of the cycle leave: with A = 100 and A -> B 60, A -> C 60
\* drained in that order, the batch is the first transaction alone, the
\* cycle reaches the submission and its ledger is A = 40, B = 60.
C1_FifoTieBreak ==
    C1_Scenario =>
        /\ txs = <<drained[1]>>
        /\ block.sent
        /\ l2_state[addr0] = 40
        /\ l2_state[addr1] = 60

\* C2: no batch cycle reaches the panic!() arm of apply_tx: a transaction
\* whose sender lacks the balance is only left out of the batch.
C2_NoFatalApply == fault # "apply_tx"

\* C3: every admitted transaction is either still in the mempool, once, or
\* was taken by exactly one drain; nothing not admitted is in either.
C3_DrainAtomicity ==
    \A i \in 1..MaxAdmit :
        InMempool(i) + taken[i] = (IF i < nextId THEN 1 ELSE 0)

\* A push landed after the drain of a cycle that is still in flight: the
\* earlier admission is in the cycle's drain, the later one in the mempool.
C3_Witness ==
    /\ pc = "sending"
    /\ Len(drained) = 1
    /\ Len(db) = 1
    /\ taken[drained[1].id] = 1
    /\ taken[db[1].id] = 0

\* C4: every transaction in the mempool is eventually removed from it.
C4_EventuallyDrained ==
    \A i \in 1..MaxAdmit : (InMempool(i) > 0) ~> (InMempool(i) = 0)

\* C5: the ledger the fold of apply_tx produces has the same total as the
\* ledger read from the anchor at the start of the cycle.
C5_Conservation == BatchRan => Total(l2_state) = Total(state)

\* A cycle applied a self-transfer of a positive value and a transfer to an
\* account apply_tx inserted.
C5_Witness ==
    /\ block.sent
    /\ Len(applied) = 2
    /\ \E k \in 1..Len(txs) : txs[k].tx.from = txs[k].tx.to /\ txs[k].tx.value > 0
    /\ (addr1 + 1) \in DOMAIN l2_state
    /\ l2_state[addr1 + 1] > 0

\* C6: the filter keeps a drained transaction exactly when its sender is in
\* the ledger with a balance of at least the value (an absent sender is
\* rejected, also with value 0), and applying a kept transaction to that
\* ledger does not take the panic arm and leaves no balance below zero.
C6_ValidateExact ==
    BatchRan =>
        \A k \in 1..Len(drained) :
            LET e == drained[k]
                r == apply_tx(state, e)
            IN  /\ Kept(e) <=> (/\ e.tx.from \in DOMAIN state
                                /\ state[e.tx.from] >= e.tx.value)
                /\ e.tx.from \notin {addr0, addr1} => ~Kept(e)
                /\ Kept(e) => /\ r.panic # "debit"
                              /\ state[e.tx.from] - e.tx.value >= 0
                              /\ \A a \in DOMAIN r.state : r.state[a] >= 0

\* A drain held a transfer of 0 from a sender the ledger does not know,
\* which the filter dropped, and a transfer the filter kept.
C6_Witness ==
    /\ BatchRan
    /\ \E k \in 1..Len(drained) :
          /\ drained[k].tx.from \notin DOMAIN state
          /\ drained[k].tx.value = 0
          /\ ~Kept(drained[k])
    /\ \E k \in 1..Len(drained) :
          /\ Kept(drained[k])
          /\ drained[k].tx.value > 0

\* C7: the mempool, the drain and the batch keep the admission order, the
\* batch is a subsequence of the drain, apply_tx goes through the batch in
\* that order, and the block handed to the anchor lists the batch as it is.
C7_FifoOrder ==
    /\ \A i, j \in 1..Len(db) : i < j => db[i].id < db[j].id
    /\ \A i, j \in 1..Len(drained) : i < j => drained[i].id < drained[j].id
    /\ \A i, j \in 1..Len(txs) : i < j => txs[i].id < txs[j].id
    /\ \A k \in 1..Len(txs) : \E m \in 1..Len(drained) : drained[m] = txs[k]
    /\ Len(applied) <= Len(txs)
    /\ \A k \in 1..Len(applied) : applied[k] = txs[k].id
    /\ block.sent => /\ Ids(block.txs) = Ids(txs)
                     /\ applied = Ids(txs)
                     /\ \A i, j \in 1..Len(block.txs) :
                            i < j => block.txs[i].id < block.txs[j].id

\* A block of two transactions, the smaller value first, was handed to the
\* anchor in the order of admission.
C7_Witness ==
    /\ block.sent
    /\ Len(block.txs) = 2
    /\ block.txs[1].amt < block.txs[2].amt
    /\ block.txs[1].id < block.txs[2].id

\* C8: the commitment handed to the anchor is the digest of the encodings of
\* the balances of every account of the post-batch ledger, in ascending
\* address order.
C8_FullAccountCommitment ==
    block.sent =>
        block.root = keccak256(EncodeAscending(l2_state, DOMAIN l2_state))

\* The case of C10: the drain took one validly signed transfer of v <= a
\* from A to B, and b + v has a 32-byte encoding.
C10_Scenario ==
    /\ BatchRan
    /\ Len(drained) = 1
    /\ verify_tx_signature(drained[1])
    /\ drained[1].tx.from = addr0
    /\ drained[1].tx.to = addr1
    /\ drained[1].tx.value <= state[addr0]
    /\ state[addr1] + drained[1].tx.value <= U256Max

C11_RoundTripAnyFrom ==
    (cli.pc = "done" /\ cli.private_key \in PrivateKey) => cli.result = "ok"

\* C11: the signature sign produces for a transaction is accepted by
\* verify_tx_signature for that transaction exactly when the transaction's
\* from is the address of the signing key.
C11_RoundTrip ==
    (cli.pc = "done" /\ cli.private_key \in PrivateKey) =>
        (cli.result = "ok" <=> AddressOf(cli.private_key) = cli.tx.from)

\* sign ran with the key of the from address on a transaction with a nonce
\* other than 0, and verify_tx_signature accepted the result.
C11_Witness ==
    /\ cli.pc = "done"
    /\ cli.private_key \in PrivateKey
    /\ AddressOf(cli.private_key) = cli.tx.from
    /\ cli.tx.nonce > 0
    /\ cli.signature = sign(cli.private_key, cli.tx)
    /\ cli.result = "ok"

\* Entry e carries a signature string that parses and was made over the
\* hash of e's transaction by the key of its from address.
SignedBySender(e) ==
    /\ e.signature.hex
    /\ e.signature.signer = e.tx.from
    /\ e.signature.msg = hash_tx(e.tx)

\* C12: every mempool entry carries a signature that verifies for its
\* sender; a submit_transaction call answered with an error leaves the
\* mempool as it was; the mempool grows only by a call answered ok, by one
\* entry, appended, whose signature verifies.
C12_VerifiedBeforePush ==
    /\ [](\A k \in 1..Len(db) : SignedBySender(db[k]))
    /\ [][(reply' = "error" /\ reply # "error") => db' = db]_vars
    /\ [][Len(db') > Len(db) =>
            /\ reply' = "ok"
            /\ Len(db') = Len(db) + 1
            /\ \A k \in 1..Len(db) : db'[k] = db[k]
            /\ SignedBySender(db'[Len(db')])]_vars

\* A call was answered with an error while an admitted transaction waits in
\* the mempool.
C12_Witness ==
    /\ reply = "error"
    /\ Len(db) = 1
    /\ SignedBySender(db[1])

\* Admission i is among the entries of sequence s.
Among(i, s) == \E k \in 1..Len(s) : s[k].id = i

\* C13: the drain takes every entry of the mempool, those that fail
\* validation included; an admission a drain took is in the mempool never
\* again and no later drain takes it; one the filter left out is in no
\* batch, neither of its own cycle nor of a later one.
C13_DrainedForGood ==
    /\ [][taken' # taken => (db' = <<>> /\ drained' = db)]_vars
    /\ [](\A i \in 1..MaxAdmit :
            taken[i] >= 1 => (taken[i] = 1 /\ InMempool(i) = 0))
    /\ [](\A i \in dropped :
            /\ taken[i] = 1
            /\ ~Among(i, txs)
            /\ ~Among(i, block.txs))

\* A later cycle has drained and submitted an admission while an earlier
\* cycle's drain took another one that its filter left out.
C13_Witness ==
    /\ pc = "sending"
    /\ Len(block.txs) = 1
    /\ \E i \in dropped : ~Among(i, drained) /\ taken[i] = 1

\* C14: the ledger a cycle starts from is exactly the pair of balances the
\* anchor returned in that cycle, the first for addr0 and the second for
\* addr1, with no other account and nothing of an earlier cycle in it.
C14_StartFromAnchor ==
    BatchRan =>
        /\ Len(l1_state) = 2
        /\ DOMAIN state = {addr0, addr1}
        /\ state[addr0] = l1_state[1]
        /\ state[addr1] = l1_state[2]

\* A cycle after one that applied a transfer: an admission was drained and
\* applied in an earlier cycle, and this cycle starts from unequal balances.
C14_Witness ==
    /\ BatchRan
    /\ state[addr0] # state[addr1]
    /\ Len(drained) = 1
    /\ \E i \in 1..MaxAdmit :
        taken[i] = 1 /\ ~Among(i, drained) /\ i \notin dropped

\* The statement of C15 as given: with a submission in flight and the
\* interval elapsed, the next cycle can start.
C15_CanOverlap == (pc = "sending" /\ tick_due) => ENABLED Tick

\* C15: cycles are serial.  A cycle starts only from the loop's tick, with
\* the interval elapsed; a submission in flight ends only by the anchor's
\* answer or a panic, and while it is in flight no cycle can start, the
\* elapsed interval being kept for later.
C15_CyclesSerial ==
    /\ [][(pc' = "root" /\ pc # "root") => (pc = "tick" /\ tick_due)]_vars
    /\ [][(pc = "sending" /\ pc' # "sending") => pc' \in {"tick", "panicked"}]_vars
    /\ [][(pc = "sending" /\ pc' = "sending") => block' = block]_vars
    /\ [](pc = "sending" => ~ENABLED Tick)

\* The interval has elapsed while a non-empty batch is in flight.
C15_Witness ==
    /\ pc = "sending"
    /\ tick_due
    /\ Len(block.txs) >= 1

\* The mempool entries s with the nonce of entry k replaced by n[k].
WithNonces(s, n) == [k \in 1..Len(s) |-> [s[k] EXCEPT !.tx.nonce = n[k]]]

\* Every run of this cycle on a mempool that differs from the drained one
\* in nonces only keeps the same positions and folds to the same ledger,
\* the same applied transactions and the same commitment.
C16_NonceBlind ==
    BatchRan =>
        \A n \in [1..Len(drained) -> 0..MaxNonce] :
            LET other == WithNonces(drained, n)
                kept == filter(other, state)
                r == fold(state, kept, <<>>)
            IN  /\ Ids(kept) = Ids(txs)
                /\ r.state = l2_state
                /\ r.applied = applied
                /\ block.sent => compute_root(r.state) = block.root

\* Admission i is among the admissions apply_tx applied in this cycle.
Applied(i) == \E k \in 1..Len(applied) : applied[k] = i

\* The same signed transaction drained at two positions is applied at both
\* when the sender's balance at the anchor covers the two transfers.
C16_ReplayApplied ==
    BatchRan =>
        \A j \in 1..Len(drained), k \in 1..Len(drained) :
            (/\ j < k
             /\ Len(drained) = 2
             /\ drained[j].tx = drained[k].tx
             /\ drained[j].signature = drained[k].signature
             /\ drained[j].tx.from \in DOMAIN state
             /\ state[drained[j].tx.from] >= 2 * drained[j].tx.value)
                => (Applied(drained[j].id) /\ Applied(drained[k].id))

\* C16: the outcome of a cycle does not depend on nonces, and the same signed
\* transaction admitted twice is applied twice in one cycle whenever the
\* sender's balance suffices.
C16_NonceIndependence == C16_NonceBlind /\ C16_ReplayApplied

\* C17: when the submission of a cycle fails, the step that fails leaves the
\* mempool as it is, the transactions the cycle drained are in the mempool
\* never again, and no later drain or batch happens.
C17_LostOnSubmitFailure ==
    /\ [][(fault' = "anchor_submit" /\ fault = "none") => db' = db]_vars
    /\ [](fault = "anchor_submit" =>
            \A k \in 1..Len(drained) :
                InMempool(drained[k].id) = 0 /\ taken[drained[k].id] = 1)
    /\ [][fault = "anchor_submit" =>
            (drained' = drained /\ block' = block /\ taken' = taken)]_vars

\* The submission of a non-empty batch failed, and a transaction admitted
\* since the drain waits in the mempool.
C17_Witness ==
    /\ fault = "anchor_submit"
    /\ Len(block.txs) = 1
    /\ Len(db) = 1

\* The batch task ended on a failed anchor read or a failed submission.
AnchorFailed == fault \in {"anchor_read", "anchor_submit"}

\* The statement of C18 as given: after an anchor failure nothing is
\* admitted and nothing is pushed to the mempool.
C18_ProcessFatal == [][AnchorFailed => (db' = db /\ nextId' = nextId)]_vars

\* C18: an anchor failure ends the batch task and nothing else.  After it
\* the task stays ended with its locals as they were and nothing is drained,
\* while submit_transaction still answers: a call with a verifying signature
\* can be admitted, and the mempool only grows at its tail.
C18_TaskFatal ==
    /\ [](AnchorFailed => pc = "panicked")
    /\ [][AnchorFailed =>
            /\ fault' = fault
            /\ batchLocals' = batchLocals
            /\ taken' = taken
            /\ Len(db') >= Len(db)
            /\ \A k \in 1..Len(db) : db'[k] = db[k]]_vars
    /\ []((AnchorFailed /\ nextId <= MaxAdmit) =>
            ENABLED (SubmitTransaction /\ reply' = "ok"))

\* The batch task has ended on an anchor failure and two transactions
\* admitted since wait in the mempool.
C18_Witness ==
    /\ AnchorFailed
    /\ drained = <<>>
    /\ Len(db) = 2
    /\ reply = "ok"

\* C19: the anchor reads come before the drain.  While a cycle reads, it has
\* drained nothing; the step on which a read fails leaves the mempool and the
\* drain counts as they are; a cycle that ended on a failed read has drained
\* nothing and has built no ledger.
C19_ReadFailsBeforeDrain ==
    /\ [](pc \in {"root", "state"} => (drained = <<>> /\ ~BatchRan))
    /\ [][(fault' = "anchor_read" /\ fault = "none") =>
            (pc \in {"root", "state"} /\ db' = db /\ taken' = taken)]_vars
    /\ [](fault = "anchor_read" =>
            (drained = <<>> /\ ~BatchRan /\ block = NoBlock))

\* A cycle failed on an anchor read with two transactions in the mempool, in
\* admission order and never drained.
C19_Witness ==
    /\ fault = "anchor_read"
    /\ Len(db) = 2
    /\ db[1].id = 1 /\ db[2].id = 2
    /\ taken[1] = 0 /\ taken[2] = 0

\* C20: a transfer that passed validation never fails on the credit side:
\* whatever the anchor state, no cycle ends on the overflow of the addition
\* in apply_tx.
C20_CreditNeverOverflows == fault # "overflow"

====
